---------------------------- MODULE Spec2Model ----------------------------
(***************************************************************************)
(* Model of .github/scripts/doc_generator.py (class DocGenerator): the     *)
(* configuration resolver, the chapter resolver, the index writer with     *)
(* backup, the link checker and the pipeline orchestrator, over a small    *)
(* file system and a clock that counts whole seconds.                      *)
(*                                                                         *)
(* Representation.  A file name is a tuple of one-character strings, so    *)
(* that suffix matching, lexicographic ordering and the construction of a  *)
(* backup name are computed on characters.  A path is a tuple of names     *)
(* relative to the project root.  A link target is the tuple of the       *)
(* pieces of its text between "/" separators.  A Python dict is a          *)
(* function whose domain is the set of keys that are present.              *)
(***************************************************************************)
EXTENDS Integers, Sequences, FiniteSets, TLC

--------------------------------------------------------------------------
(* Bounds of the model *)

\* first clock second of the model (epoch seconds, scaled down)
StartClock == 9
\* number of seconds the clock may advance
MaxTicks == 2
\* number of runs of the tool
MaxRuns == 2

--------------------------------------------------------------------------
(* Characters and names *)

\* the characters used, in code point order
Alphabet ==
    << "#", ".", "0", "1", "2", "3", "4", "5", "6", "7", "8", "9", ":",
       "A", "B", "C", "D", "E", "I", "M", "N", "O", "P", "R", "S", "T", "U",
       "V", "Z", "_",
       "a", "b", "c", "d", "e", "f", "g", "h", "i", "k", "l", "m", "n", "o", "p",
       "q", "r", "s", "t", "u", "v", "w", "x", "y", "z" >>

Ord(c) == CHOOSE i \in 1..Len(Alphabet) : Alphabet[i] = c

\* Python's str < str: lexicographic by code point
RECURSIVE StrLess(_, _)
StrLess(a, b) ==
    IF b = <<>> THEN FALSE
    ELSE IF a = <<>> THEN TRUE
    ELSE IF a[1] # b[1] THEN Ord(a[1]) < Ord(b[1])
    ELSE StrLess(Tail(a), Tail(b))

\* faulty variant: a match of the suffix anywhere in the name
EndsWith_anywhere(s, suf) ==
    \E k \in 1..Len(s) :
        /\ k + Len(suf) - 1 <= Len(s)
        /\ SubSeq(s, k, k + Len(suf) - 1) = suf

\* str.endswith
EndsWith(s, suf) ==
    /\ Len(s) >= Len(suf)
    /\ SubSeq(s, Len(s) - Len(suf) + 1, Len(s)) = suf

\* str(n) for a natural number: its decimal digits
Digit(d) == Alphabet[d + 3]

RECURSIVE IntToStr(_)
IntToStr(n) ==
    IF n < 10 THEN << Digit(n) >>
    ELSE Append(IntToStr(n \div 10), Digit(n % 10))

N_md == << ".", "m", "d" >>
N_dot == << "." >>
N_dotdot == << ".", "." >>
N_index_md == << "i", "n", "d", "e", "x", ".", "m", "d" >>
N_a_md == << "a", ".", "m", "d" >>
N_b_md == << "b", ".", "m", "d" >>
N_c_md == << "c", ".", "m", "d" >>
N_notes_txt == << "n", "o", "t", "e", "s", ".", "t", "x", "t" >>
N_prd_md == << "p", "r", "d", ".", "m", "d" >>
N_guide_md == << "g", "u", "i", "d", "e", ".", "m", "d" >>
N_report_md ==
    << "V", "4", "_", "D", "O", "C", "U", "M", "E", "N", "T", "A", "T", "I",
       "O", "N", "_", "S", "T", "A", "N", "D", "A", "R", "D", "I", "Z", "A",
       "T", "I", "O", "N", "_", "R", "E", "P", "O", "R", "T", ".", "m", "d" >>
N_docs == << "d", "o", "c", "s" >>
N_prd == << "p", "r", "d" >>
N_architecture ==
    << "a", "r", "c", "h", "i", "t", "e", "c", "t", "u", "r", "e" >>
N_architecture_md == N_architecture \o N_md
N_stories == << "s", "t", "o", "r", "i", "e", "s" >>
N_qa == << "q", "a" >>
\* the QA test document of the root index (its name is four CJK characters
\* in the source; written here in ASCII)
N_qa_doc_md == << "c", "e", "s", "h", "i", ".", "m", "d" >>
N_api_md ==
    << "a", "k", "s", "h", "a", "r", "e", "_", "f", "u", "n", "d", "_", "a",
       "p", "i", "_", "p", "a", "r", "a", "m", "e", "t", "e", "r", "s", ".",
       "m", "d" >>
N_https == << "h", "t", "t", "p", "s", ":" >>
N_example_com == << "e", "x", "a", "m", "p", "l", "e", ".", "c", "o", "m" >>
N_anchor == << "#", "t", "o", "p" >>
N_dot_backup_dot == << ".", "b", "a", "c", "k", "u", "p", "." >>

\* heading texts of the chapter files
T_Alpha == << "A", "l", "p", "h", "a" >>
T_Beta == << "B", "e", "t", "a" >>
T_Intro == << "I", "n", "t", "r", "o" >>

--------------------------------------------------------------------------
(* pathlib *)

\* PurePath.suffix: the name from its last dot on, when that dot is neither
\* the first nor the last character
LastDot(name) ==
    IF \E i \in 1..Len(name) : name[i] = "."
    THEN CHOOSE i \in 1..Len(name) :
            /\ name[i] = "."
            /\ \A j \in (i + 1)..Len(name) : name[j] # "."
    ELSE 0

Suffix(name) ==
    LET i == LastDot(name)
    IN  IF 1 < i /\ i < Len(name) THEN SubSeq(name, i, Len(name)) ELSE <<>>

\* PurePath.stem
Stem(name) == SubSeq(name, 1, Len(name) - Len(Suffix(name)))

\* PurePath.with_suffix on the last component of a path
WithSuffix(path, suffix) ==
    Append(SubSeq(path, 1, Len(path) - 1), Stem(path[Len(path)]) \o suffix)

\* PurePath.name and PurePath.parent
NameOf(path) == path[Len(path)]
Parent(path) == SubSeq(path, 1, Len(path) - 1)

\* dir / "a/b": the pieces are appended, "." and empty pieces dropped
JoinPath(dir, pieces) ==
    dir \o SelectSeq(pieces, LAMBDA t : t # N_dot /\ t # <<>>)

\* Path.resolve of an already joined path: ".." steps to the parent
RECURSIVE ResolveFrom(_, _)
ResolveFrom(done, rest) ==
    IF rest = <<>> THEN done
    ELSE IF Head(rest) = N_dotdot
         THEN ResolveFrom(IF done = <<>> THEN <<>> ELSE Parent(done), Tail(rest))
         ELSE ResolveFrom(Append(done, Head(rest)), Tail(rest))

Resolve(path) == ResolveFrom(<<>>, path)

\* DocGenerator.project_root is the empty path; DocGenerator.docs_dir
docs_dir == << N_docs >>

--------------------------------------------------------------------------
(* dicts *)

EmptyDict == << >>

\* dict.get(key, default)
Get(d, k, default) == IF k \in DOMAIN d THEN d[k] ELSE default

\* dict.update: the keys of the second dict win
Update(d, e) ==
    [k \in (DOMAIN d) \cup (DOMAIN e) |-> IF k \in DOMAIN e THEN e[k] ELSE d[k]]

--------------------------------------------------------------------------
(* Configuration *)

default_config ==
    [ project |-> [ name |-> "platform", version |-> "v4.0",
                    description |-> "quant" ],
      modules |-> EmptyDict,
      output |-> [ format |-> << "markdown" >>, encoding |-> "utf-8" ],
      generation |-> [ auto_index |-> TRUE, auto_toc |-> TRUE,
                       auto_sync |-> TRUE ] ]

\* the contents of .docs-config.yaml
Section_project == [ name |-> "platform", version |-> "v4.0" ]

Ref(file) == [ file |-> file ]

\* ModuleConfig values of a config file
PrdConfigs ==
    { [ enabled |-> TRUE, path |-> << N_prd >> ],
      [ path |-> << N_prd >>, chapters |-> << >> ],
      [ path |-> << N_prd >>,
        chapters |-> << Ref(N_b_md), Ref(N_c_md), Ref(N_a_md) >> ],
      [ path |-> << N_prd >>,
        chapters |-> << [ file |-> N_b_md, title |-> T_Intro ],
                        Ref(N_index_md), Ref(N_b_md) >> ],
      [ enabled |-> FALSE, path |-> << N_prd >> ],
      [ enabled |-> TRUE ],
      [ path |-> << N_dot >> ],
      [ path |-> << N_architecture >> ] }

ArchConfigs ==
    { [ path |-> << N_architecture >> ],
      [ path |-> << N_architecture >>, chapters |-> << Ref(N_c_md), Ref(N_a_md) >> ],
      [ enabled |-> FALSE ] }

Section_modules ==
    { EmptyDict }
    \cup { [ prd |-> p ] : p \in { [ path |-> << N_prd >> ] } }
    \cup { [ architecture |-> a ] : a \in { [ path |-> << N_architecture >> ] } }
    \cup { [ prd |-> p, architecture |-> [ path |-> << N_architecture >> ] ] :
             p \in PrdConfigs }
    \cup { [ prd |-> [ path |-> << N_prd >> ], architecture |-> a ] :
             a \in ArchConfigs }

Section_generation ==
    { [ auto_index |-> TRUE, backup_original |-> TRUE ],
      [ backup_original |-> FALSE ],
      [ auto_index |-> FALSE ] }

Section_quality == { [ check_links |-> TRUE ], [ check_links |-> FALSE ] }

BaseModules ==
    [ prd |-> [ path |-> << N_prd >> ],
      architecture |-> [ path |-> << N_architecture >> ] ]

\* the mappings a config file may parse to: the sections vary one at a time
ParsedConfigs ==
    { [ project |-> Section_project, modules |-> m ] : m \in Section_modules }
    \cup { [ project |-> Section_project, modules |-> BaseModules,
             generation |-> g ] : g \in Section_generation }
    \cup { [ project |-> Section_project, modules |-> BaseModules,
             quality |-> q ] : q \in Section_quality }
    \cup { [ project |-> Section_project ],
           [ modules |-> BaseModules ],
           [ project |-> Section_project, generation |-> [ auto_toc |-> TRUE ] ] }

\* the states of the config file: absent, present but not parsable, or
\* present and parsed to a mapping
ConfigFiles ==
    { [ state |-> "absent", data |-> EmptyDict ],
      [ state |-> "unparsable", data |-> EmptyDict ] }
    \cup { [ state |-> "parsed", data |-> d ] : d \in ParsedConfigs }

\* faulty variant: no fallback to the default configuration
load_config_without_fallback(cf) == cf.data

\* DocGenerator.load_config
load_config(cf) ==
    IF cf.state = "parsed" THEN cf.data ELSE default_config

--------------------------------------------------------------------------
(* Files *)

(* A file is [path, content, readable]; its content is                     *)
(* [kind, lines, links, chapters, at]: the lines that matter to the        *)
(* chapter parser (mark is the heading marker the line starts with), the   *)
(* markdown links in the order they occur, and, for a rendered index, the  *)
(* chapter list it was rendered from and the second it was rendered at.    *)

Line(mark, text) == [ mark |-> mark, text |-> text ]
Link(text, url) == [ text |-> text, url |-> url ]

UserContent(lines, links) ==
    [ kind |-> "user", lines |-> lines, links |-> links, chapters |-> << >>,
      at |-> 0 ]

File(path, content, readable) ==
    [ path |-> path, content |-> content, readable |-> readable ]

VARIABLES
    config_file,  \* the state of .docs-config.yaml
    config,       \* DocGenerator.config
    dirs,         \* the directories that exist (paths)
    files,        \* the files that exist
    clock,        \* the wall clock, in whole seconds
    runs,         \* the number of runs started
    action,       \* the --action of the current run
    pc,           \* the position of the current run
    success,      \* generate_all's local variable
    steps,        \* the module steps of the current run and how each ended
    chapters,     \* the chapter list of the last module step that built one
    root_docs,    \* generate_main_index's local variable
    wrote,        \* the index write of the last module step, if it made one
    link_check,   \* the link check of the current run, if one was made
    exit          \* how the current run ended

vars ==
    << config_file, config, dirs, files, clock, runs, action, pc, success,
       steps, chapters, root_docs, wrote, link_check, exit >>

\* Path.exists
ExistsIn(ds, fs, path) ==
    \/ path = << >>
    \/ path \in ds
    \/ \E f \in fs : f.path = path

FileAt(fs, path) == CHOOSE f \in fs : f.path = path

IsFile(fs, path) == \E f \in fs : f.path = path

\* open(path, 'r').read() succeeds
CanRead(fs, path) == IsFile(fs, path) /\ FileAt(fs, path).readable

\* the names of the entries directly in a directory
Entries(ds, fs, dir) ==
    { NameOf(f.path) : f \in { g \in fs : Parent(g.path) = dir } }
    \cup { NameOf(d) : d \in { e \in ds : e # << >> /\ Parent(e) = dir } }

\* dir.glob("*.md"): the entries whose name ends with .md
Glob_md(ds, fs, dir) == { n \in Entries(ds, fs, dir) : EndsWith(n, N_md) }

\* sorted(): ascending by name (the paths share their parent)
RECURSIVE Sorted(_)
Sorted(S) ==
    IF S = {} THEN << >>
    ELSE LET m == CHOOSE x \in S : \A y \in S \ {x} : StrLess(x, y)
         IN  << m >> \o Sorted(S \ {m})

--------------------------------------------------------------------------
(* Chapter Resolver *)

T_chapter_description == << "d", "e", "s", "c" >>
T_parse_failed == << "f", "a", "i", "l", "e", "d" >>

\* the loop of parse_chapter_info over the lines of the file
RECURSIVE ParseLines(_, _, _)
ParseLines(lines, title, description) ==
    IF lines = << >> THEN [ title |-> title, description |-> description ]
    ELSE LET line == Head(lines)
         IN  IF line.mark = "# " /\ title = << >>
             THEN ParseLines(Tail(lines), line.text, description)
             ELSE IF line.mark = "## " /\ description = << >>
             THEN ParseLines(Tail(lines), title, line.text)
             ELSE IF title # << >> /\ description # << >>
             THEN [ title |-> title, description |-> description ]
             ELSE ParseLines(Tail(lines), title, description)

\* DocGenerator.parse_chapter_info (size and modification time left out)
parse_chapter_info(fs, file_path) ==
    IF CanRead(fs, file_path)
    THEN LET got == ParseLines(FileAt(fs, file_path).content.lines, << >>, << >>)
         IN  [ file |-> NameOf(file_path),
               title |-> IF got.title # << >> THEN got.title
                         ELSE Stem(NameOf(file_path)),
               description |-> IF got.description # << >> THEN got.description
                               ELSE T_chapter_description,
               path |-> << N_dot, NameOf(file_path) >> ]
    ELSE [ file |-> NameOf(file_path),
           title |-> Stem(NameOf(file_path)),
           description |-> T_parse_failed,
           path |-> << N_dot, NameOf(file_path) >> ]

\* faulty variant: the configured chapters without the test that the file exists
RECURSIVE ExplicitChapters_unfiltered(_, _, _, _)
ExplicitChapters_unfiltered(ds, fs, dir, chapter_files) ==
    IF chapter_files = << >> THEN << >>
    ELSE << Update(parse_chapter_info(fs, Append(dir, Head(chapter_files)["file"])),
                   Head(chapter_files)) >>
         \o ExplicitChapters_unfiltered(ds, fs, dir, Tail(chapter_files))

\* the loop over the configured chapter list
RECURSIVE ExplicitChapters(_, _, _, _)
ExplicitChapters(ds, fs, dir, chapter_files) ==
    IF chapter_files = << >> THEN << >>
    ELSE LET chapter_file == Head(chapter_files)
             file_path == Append(dir, chapter_file["file"])
             rest == ExplicitChapters(ds, fs, dir, Tail(chapter_files))
         IN  IF ExistsIn(ds, fs, file_path)
             THEN << Update(parse_chapter_info(fs, file_path), chapter_file) >>
                  \o rest
             ELSE rest

\* faulty variant: the loop without the exclusion of index.md
RECURSIVE ParseAll_with_index(_, _, _)
ParseAll_with_index(fs, dir, names) ==
    IF names = << >> THEN << >>
    ELSE << parse_chapter_info(fs, Append(dir, Head(names))) >>
         \o ParseAll_with_index(fs, dir, Tail(names))

\* the loop over the sorted markdown files of the directory
RECURSIVE ParseAll(_, _, _)
ParseAll(fs, dir, names) ==
    IF names = << >> THEN << >>
    ELSE (IF Head(names) # N_index_md
          THEN << parse_chapter_info(fs, Append(dir, Head(names))) >>
          ELSE << >>)
         \o ParseAll(fs, dir, Tail(names))

DiscoveredChapters(ds, fs, dir) == ParseAll(fs, dir, Sorted(Glob_md(ds, fs, dir)))

\* the chapter list of generate_prd_index and generate_architecture_index
ResolveChapters(ds, fs, dir, module_config) ==
    LET chapter_files == Get(module_config, "chapters", << >>)
    IN  IF chapter_files # << >>
        THEN ExplicitChapters(ds, fs, dir, chapter_files)
        ELSE DiscoveredChapters(ds, fs, dir)

--------------------------------------------------------------------------
(* Template Renderer *)

\* the attributes every dict has (its methods)
DictAttributes ==
    { "clear", "copy", "fromkeys", "get", "items", "keys", "pop", "popitem",
      "setdefault", "update", "values" }

\* jinja2's Environment.getattr, which evaluates obj.attr in a template:
\* the attribute of the object if it has one, else the item of that key,
\* else an undefined value
JinjaGetattr(obj, attr) ==
    IF attr \in DictAttributes THEN "attribute"
    ELSE IF attr \in DOMAIN obj THEN "item"
    ELSE "undefined"

\* {{ config.project.name }}: an attribute of an undefined value raises
ProjectNameRaises(cfg) == JinjaGetattr(cfg, "project") = "undefined"

T_link == << "d", "o", "c" >>
T_prd_heading == << "P", "R", "D" >>
T_arch_heading == << "A", "r", "c", "h" >>
T_main_heading == << "I", "n", "d", "e", "x" >>
T_navigation == << "n", "a", "v" >>

\* [{{ chapter.title }}](./{{ chapter.file }}) for each chapter; the link
\* pattern of the checker needs a non-empty text
RECURSIVE ChapterLinks(_)
ChapterLinks(chs) ==
    IF chs = << >> THEN << >>
    ELSE (IF Head(chs).title # << >>
          THEN << Link(Head(chs).title, << N_dot, Head(chs).file >>) >>
          ELSE << >>)
         \o ChapterLinks(Tail(chs))

PrdTemplateLinks ==
    << Link(T_link, << N_dotdot, N_prd_md >>),
       Link(T_link, << N_dotdot, N_architecture, N_index_md >>),
       Link(T_link, << N_dotdot, N_stories, N_index_md >>),
       Link(T_link, << N_dotdot, N_qa, N_index_md >>) >>

ArchTemplateLinks ==
    << Link(T_link, << N_dotdot, N_architecture_md >>),
       Link(T_link, << N_dotdot, N_prd, N_index_md >>),
       Link(T_link, << N_dotdot, N_stories, N_index_md >>),
       Link(T_link, << N_dotdot, N_api_md >>) >>

MainTemplateLinks ==
    << Link(T_link, << N_dot, N_prd_md >>),
       Link(T_link, << N_dot, N_architecture, N_index_md >>),
       Link(T_link, << N_dot, N_stories, N_index_md >>),
       Link(T_link, << N_dot, N_qa, N_qa_doc_md >>) >>

Rendered(content) == [ raised |-> FALSE, error |-> "", content |-> content ]
RenderError(error) ==
    [ raised |-> TRUE, error |-> error, content |-> UserContent(<< >>, << >>) ]

\* Template(get_prd_index_template()).render(...)
get_prd_index_template(chs, cfg, now) ==
    IF ProjectNameRaises(cfg) THEN RenderError("UndefinedError")
    ELSE Rendered([ kind |-> "prd_index",
                    lines |-> << Line("# ", T_prd_heading),
                                 Line("## ", T_navigation) >>,
                    links |-> ChapterLinks(chs) \o PrdTemplateLinks,
                    chapters |-> chs,
                    at |-> now ])

\* Template(get_architecture_index_template()).render(...)
get_architecture_index_template(chs, cfg, now) ==
    IF ProjectNameRaises(cfg) THEN RenderError("UndefinedError")
    ELSE Rendered([ kind |-> "architecture_index",
                    lines |-> << Line("# ", T_arch_heading),
                                 Line("## ", T_navigation) >>,
                    links |-> ChapterLinks(chs) \o ArchTemplateLinks,
                    chapters |-> chs,
                    at |-> now ])

\* [{{ item.title }}]({{ item.path }}) for each item of each module
RECURSIVE ItemLinks(_)
ItemLinks(items) ==
    IF items = << >> THEN << >>
    ELSE << Link(Head(items).title, Head(items).path) >> \o ItemLinks(Tail(items))

RECURSIVE ModuleLinks(_)
ModuleLinks(modules) ==
    IF modules = << >> THEN << >>
    ELSE ItemLinks(Head(modules)["items"]) \o ModuleLinks(Tail(modules))

\* Template(get_main_index_template()).render(...): the template iterates
\* over module.items, and for a dict jinja2 finds the method dict.items
\* before the key "items"; iterating over a method raises TypeError
get_main_index_template(modules, cfg, now) ==
    IF ProjectNameRaises(cfg) THEN RenderError("UndefinedError")
    ELSE IF \E i \in 1..Len(modules) :
               JinjaGetattr(modules[i], "items") = "attribute"
    THEN RenderError("TypeError")
    ELSE Rendered([ kind |-> "main_index",
                    lines |-> << Line("# ", T_main_heading) >>,
                    links |-> ModuleLinks(modules) \o MainTemplateLinks,
                    chapters |-> << >>,
                    at |-> now ])

--------------------------------------------------------------------------
(* Index Writer *)

\* faulty variant: the suffix without the .md that with_suffix replaces
BackupSuffix_without_md(now) == N_dot_backup_dot \o IntToStr(now)

\* faulty variant: the timestamp in tens of seconds
BackupSuffix_coarse(now) == N_md \o N_dot_backup_dot \o IntToStr(now \div 10)

\* f".md.backup.{int(datetime.now().timestamp())}"
BackupSuffix(now) == N_md \o N_dot_backup_dot \o IntToStr(now)

\* index_file.with_suffix(...)
BackupFile(index_file, now) == WithSuffix(index_file, BackupSuffix(now))

\* Path.rename: the file takes the new path, replacing a file already there
Rename(fs, src, dst) ==
    { f \in fs : f.path # src /\ f.path # dst }
    \cup { [ FileAt(fs, src) EXCEPT !.path = dst ] }

\* open(path, 'w') and write: the content is replaced, or the file created
WriteFile(fs, path, content) ==
    IF IsFile(fs, path)
    THEN { f \in fs : f.path # path }
         \cup { [ FileAt(fs, path) EXCEPT !.content = content ] }
    ELSE fs \cup { File(path, content, TRUE) }

\* generation.backup_original, default True
BackupEnabled(cfg) ==
    Get(Get(cfg, "generation", EmptyDict), "backup_original", TRUE)

NoWrite ==
    [ attempted |-> FALSE, made |-> FALSE, index_file |-> << >>, backup |-> FALSE,
      backup_file |-> << >>, old |-> UserContent(<< >>, << >>),
      new |-> UserContent(<< >>, << >>), at |-> 0 ]

\* how a step of generate_all ends: it returns a value or raises
Returned(value, fs, chs, w) ==
    [ result |-> IF value THEN "true" ELSE "false", error |-> "", files |-> fs,
      chapters |-> chs, wrote |-> w ]

Raised(error, fs, chs, w) ==
    [ result |-> "raised", error |-> error, files |-> fs, chapters |-> chs,
      wrote |-> w ]

\* the tail of each generate_*_index: back up the index file that exists,
\* write the rendered content, return True.  io is what the file system
\* does to this call: "ok", "rename_fails" or "write_fails"
WriteIndex(cfg, ds, fs, index_file, content, chs, now, io) ==
    LET backup == BackupEnabled(cfg) /\ ExistsIn(ds, fs, index_file)
        backup_file == BackupFile(index_file, now)
        renamed == IF backup /\ IsFile(fs, index_file)
                   THEN Rename(fs, index_file, backup_file) ELSE fs
        w == [ attempted |-> TRUE, made |-> TRUE, index_file |-> index_file, backup |-> backup,
               backup_file |-> backup_file,
               old |-> IF IsFile(fs, index_file)
                       THEN FileAt(fs, index_file).content
                       ELSE UserContent(<< >>, << >>),
               new |-> content, at |-> now ]
    IN  IF backup /\ io = "rename_fails"
        THEN Raised("OSError", fs, chs, [ w EXCEPT !.made = FALSE ])
        ELSE IF io = "write_fails" \/ ~ExistsIn(ds, renamed, Parent(index_file))
        THEN Raised("OSError", renamed, chs, [ w EXCEPT !.made = FALSE ])
        ELSE Returned(TRUE, WriteFile(renamed, index_file, content), chs, w)

--------------------------------------------------------------------------
(* Module steps *)

\* generate_prd_index and generate_architecture_index are the same code
\* over modules.prd and modules.architecture
ModuleIndexStep(key, cfg, ds, fs, now, io) ==
    LET module_config == Get(Get(cfg, "modules", EmptyDict), key, EmptyDict)
    IN  IF ~Get(module_config, "enabled", TRUE)
        THEN Returned(FALSE, fs, << >>, NoWrite)
        ELSE IF "path" \notin DOMAIN module_config
        THEN Raised("KeyError", fs, << >>, NoWrite)
        ELSE
        LET module_dir == JoinPath(docs_dir, module_config["path"])
        IN  IF ~ExistsIn(ds, fs, module_dir)
            THEN Returned(FALSE, fs, << >>, NoWrite)
            ELSE
            LET chs == ResolveChapters(ds, fs, module_dir, module_config)
                out == IF key = "prd"
                       THEN get_prd_index_template(chs, cfg, now)
                       ELSE get_architecture_index_template(chs, cfg, now)
            IN  IF out.raised
                THEN Raised(out.error, fs, chs, NoWrite)
                ELSE WriteIndex(cfg, ds, fs, Append(module_dir, N_index_md),
                                out.content, chs, now, io)

generate_prd_index(cfg, ds, fs, now, io) ==
    ModuleIndexStep("prd", cfg, ds, fs, now, io)

generate_architecture_index(cfg, ds, fs, now, io) ==
    ModuleIndexStep("architecture", cfg, ds, fs, now, io)

T_file_description == << "d", "o", "c", "d", "e", "s", "c" >>
T_unreadable == << "u", "n", "r", "e", "a", "d" >>

\* get_file_description: the first non-empty line that starts neither with
\* "#" nor with "!" (the texts of the model are shorter than 100 characters)
RECURSIVE FirstParagraph(_)
FirstParagraph(lines) ==
    IF lines = << >> THEN T_file_description
    ELSE IF Head(lines).mark = "" /\ Head(lines).text # << >>
    THEN Head(lines).text
    ELSE FirstParagraph(Tail(lines))

get_file_description(fs, file_path) ==
    IF CanRead(fs, file_path)
    THEN FirstParagraph(FileAt(fs, file_path).content.lines)
    ELSE T_unreadable

\* the hard-coded module of the root index
v4_docs ==
    [ title |-> << "V", "4" >>,
      description |-> T_link,
      items |-> << [ title |-> T_link, path |-> << N_dot, N_report_md >>,
                     description |-> T_link ],
                   [ title |-> T_link, path |-> << N_dot, N_prd_md >>,
                     description |-> T_link ],
                   [ title |-> T_link,
                     path |-> << N_dot, N_architecture, N_index_md >>,
                     description |-> T_link ],
                   [ title |-> T_link,
                     path |-> << N_dot, N_stories, N_index_md >>,
                     description |-> T_link ],
                   [ title |-> T_link,
                     path |-> << N_dot, N_qa, N_qa_doc_md >>,
                     description |-> T_link ] >> ]

\* the names generate_main_index leaves out of the other documents
ListedRootNames == { N_index_md, N_report_md, N_prd_md }

RECURSIVE RootDocs(_, _)
RootDocs(fs, names) ==
    IF names = << >> THEN << >>
    ELSE (IF Head(names) \notin ListedRootNames
          THEN << [ title |-> Stem(Head(names)),
                    path |-> << N_dot, Head(names) >>,
                    description |->
                        get_file_description(fs, Append(docs_dir, Head(names))) ] >>
          ELSE << >>)
         \o RootDocs(fs, Tail(names))

ScanRootDocs(ds, fs) == RootDocs(fs, Sorted(Glob_md(ds, fs, docs_dir)))

generate_main_index(cfg, ds, fs, now, io) ==
    LET docs == ScanRootDocs(ds, fs)
        modules == << v4_docs >>
                   \o (IF docs # << >>
                       THEN << [ title |-> << "d", "o", "c", "s" >>,
                                 description |-> T_link,
                                 items |-> docs ] >>
                       ELSE << >>)
        out == get_main_index_template(modules, cfg, now)
    IN  IF out.raised
        THEN Raised(out.error, fs, << >>, NoWrite)
        ELSE WriteIndex(cfg, ds, fs, Append(docs_dir, N_index_md),
                        out.content, << >>, now, io)

--------------------------------------------------------------------------
(* Link Checker *)

\* faulty variant: only ./ counts as relative
IsRelativeLink_dot_only(url) == Len(url) >= 2 /\ url[1] = N_dot

\* link_url.startswith('./') or link_url.startswith('../')
IsRelativeLink(url) ==
    /\ Len(url) >= 2
    /\ url[1] = N_dot \/ url[1] = N_dotdot

\* (md_file.parent / link_url).resolve()
LinkTarget(md_path, url) == Resolve(JoinPath(Parent(md_path), url))

\* the loop over the links of one file
RECURSIVE BrokenIn(_, _, _, _)
BrokenIn(ds, fs, md_path, links) ==
    IF links = << >> THEN << >>
    ELSE LET l == Head(links)
         IN  (IF IsRelativeLink(l.url)
                 /\ ~ExistsIn(ds, fs, LinkTarget(md_path, l.url))
              THEN << [ file |-> md_path, link |-> l.url, text |-> l.text ] >>
              ELSE << >>)
             \o BrokenIn(ds, fs, md_path, Tail(links))

\* docs_dir.rglob("*.md")
IsUnder(path, dir) ==
    /\ Len(path) > Len(dir)
    /\ SubSeq(path, 1, Len(dir)) = dir

AllMdFiles(fs) ==
    { f.path : f \in { g \in fs : IsUnder(g.path, docs_dir)
                                   /\ EndsWith(NameOf(g.path), N_md) } }

\* the loop over the files, in the order the file system lists them (any
\* fixed order); a file that cannot be read is logged and passed over
RECURSIVE ScanAll(_, _, _)
ScanAll(ds, fs, paths) ==
    IF paths = {} THEN << >>
    ELSE LET md_path == CHOOSE q \in paths : TRUE
         IN  (IF CanRead(fs, md_path)
              THEN BrokenIn(ds, fs, md_path, FileAt(fs, md_path).content.links)
              ELSE << >>)
             \o ScanAll(ds, fs, paths \ {md_path})

\* quality.check_links, default True
LinkCheckEnabled(cfg) ==
    Get(Get(cfg, "quality", EmptyDict), "check_links", TRUE)

NoLinkCheck ==
    [ called |-> FALSE, by |-> "", scanned |-> {}, broken_links |-> << >>,
      result |-> TRUE ]

\* DocGenerator.check_links
check_links(cfg, ds, fs, by) ==
    IF ~LinkCheckEnabled(cfg)
    THEN [ called |-> TRUE, by |-> by, scanned |-> {}, broken_links |-> << >>,
           result |-> TRUE ]
    ELSE LET broken == ScanAll(ds, fs, AllMdFiles(fs))
         IN  [ called |-> TRUE, by |-> by, scanned |-> AllMdFiles(fs),
               broken_links |-> broken, result |-> (broken = << >>) ]

--------------------------------------------------------------------------
(* The documentation trees the runs start from *)

prd_dir == << N_docs, N_prd >>
architecture_dir == << N_docs, N_architecture >>

L_to_b == Link(T_link, << N_dot, N_b_md >>)
L_to_c == Link(T_link, << N_dot, N_c_md >>)
L_to_prd_a == Link(T_link, << N_dotdot, N_prd, N_a_md >>)
L_url == Link(T_link, << N_https, << >>, N_example_com >>)
L_anchor == Link(T_link, << N_anchor >>)
L_bare == Link(T_link, << N_c_md >>)

\* a.md is headed Beta and b.md is headed Alpha
C_a_good ==
    UserContent(<< Line("# ", T_Beta), Line("## ", T_Intro) >>,
                << L_to_b, L_url, L_anchor, L_bare >>)
C_a_bad ==
    UserContent(<< Line("# ", T_Beta), Line("## ", T_Intro) >>,
                << L_to_c, L_to_b, L_url, L_to_c >>)
C_b == UserContent(<< Line("", << >>), Line("# ", T_Alpha) >>, << L_to_prd_a >>)
C_notes == UserContent(<< Line("", T_Intro) >>, << L_to_c >>)
C_old_index == UserContent(<< Line("# ", T_Intro) >>, << L_anchor >>)
C_arch_a ==
    UserContent(<< Line("## ", T_Intro), Line("# ", T_Alpha) >>, << L_url >>)
C_guide ==
    UserContent(<< Line("# ", T_Intro), Line("", T_Beta) >>,
                << Link(T_link, << N_dot, N_prd, N_b_md >>) >>)

PrdTrees ==
    { [ dirs |-> {}, files |-> {} ],
      [ dirs |-> { prd_dir },
        files |-> { File(Append(prd_dir, N_a_md), C_a_good, TRUE),
                    File(Append(prd_dir, N_b_md), C_b, TRUE),
                    File(Append(prd_dir, N_notes_txt), C_notes, TRUE) } ],
      [ dirs |-> { prd_dir },
        files |-> { File(Append(prd_dir, N_a_md), C_a_bad, TRUE),
                    File(Append(prd_dir, N_b_md), C_b, TRUE),
                    File(Append(prd_dir, N_index_md), C_old_index, TRUE) } ],
      [ dirs |-> { prd_dir },
        files |-> { File(Append(prd_dir, N_a_md), C_a_bad, FALSE),
                    File(Append(prd_dir, N_b_md), C_b, TRUE),
                    File(Append(prd_dir, N_index_md), C_old_index, TRUE) } ] }

ArchTrees ==
    { [ dirs |-> {}, files |-> {} ],
      [ dirs |-> { architecture_dir },
        files |-> { File(Append(architecture_dir, N_a_md), C_arch_a, TRUE),
                    File(Append(architecture_dir, N_index_md), C_old_index, TRUE) } ] }

RootTrees ==
    { [ dirs |-> { docs_dir },
        files |-> { File(Append(docs_dir, N_guide_md), C_guide, TRUE),
                    File(Append(docs_dir, N_prd_md), C_old_index, TRUE),
                    File(Append(docs_dir, N_index_md), C_old_index, TRUE) } ] }

Trees ==
    { [ dirs |-> {}, files |-> {} ] }
    \cup { [ dirs |-> r.dirs \cup p.dirs \cup a.dirs,
             files |-> r.files \cup p.files \cup a.files ] :
             r \in RootTrees, p \in PrdTrees, a \in ArchTrees }

--------------------------------------------------------------------------
(* The runs of the tool *)

NotExited == [ state |-> "running", generate_all |-> "none", code |-> 0 ]

Init ==
    /\ config_file \in ConfigFiles
    /\ config = load_config(config_file)
    /\ \E t \in Trees : dirs = t.dirs /\ files = t.files
    /\ clock = StartClock
    /\ runs = 0
    /\ action = "none"
    /\ pc = "start"
    /\ success = TRUE
    /\ steps = << >>
    /\ chapters = << >>
    /\ root_docs = << >>
    /\ wrote = NoWrite
    /\ link_check = NoLinkCheck
    /\ exit = NotExited

\* generation.auto_index, default True
AutoIndex(cfg) == Get(Get(cfg, "generation", EmptyDict), "auto_index", TRUE)

\* main(): a new process builds a DocGenerator, which loads the
\* configuration, and calls the method its --action names; generate_all
\* starts with success = True
Start(a) ==
    /\ pc \in { "start", "done" }
    /\ runs < MaxRuns
    /\ runs' = runs + 1
    /\ action' = a
    /\ config' = load_config(config_file)
    /\ success' = TRUE
    /\ steps' = << >>
    /\ chapters' = << >>
    /\ root_docs' = << >>
    /\ wrote' = NoWrite
    /\ link_check' = NoLinkCheck
    /\ exit' = NotExited
    /\ pc' = IF a = "check" THEN "check"
             ELSE IF AutoIndex(config') THEN "prd" ELSE "links"
    /\ UNCHANGED << config_file, dirs, files, clock >>

\* an exception leaves generate_all and is caught in main(): exit code 1
ExitRaised == [ state |-> "raised", generate_all |-> "none", code |-> 1 ]

\* one "success &= self.generate_..._index()" of generate_all
Step(name, out, next) ==
    /\ steps' = Append(steps, [ step |-> name, result |-> out.result,
                                error |-> out.error ])
    /\ files' = out.files
    /\ chapters' = out.chapters
    /\ wrote' = out.wrote
    /\ IF out.result = "raised"
       THEN /\ pc' = "done"
            /\ exit' = ExitRaised
            /\ UNCHANGED success
       ELSE /\ pc' = next
            /\ success' = (success /\ out.result = "true")
            /\ UNCHANGED exit
    /\ UNCHANGED << config_file, config, dirs, clock, runs, action, link_check >>

IoOutcomes == { "ok", "rename_fails", "write_fails" }

GeneratePrdIndex ==
    /\ pc = "prd"
    /\ \E io \in IoOutcomes :
          Step("prd", generate_prd_index(config, dirs, files, clock, io), "arch")
    /\ UNCHANGED root_docs

GenerateArchitectureIndex ==
    /\ pc = "arch"
    /\ \E io \in IoOutcomes :
          Step("architecture",
               generate_architecture_index(config, dirs, files, clock, io),
               "main")
    /\ UNCHANGED root_docs

GenerateMainIndex ==
    /\ pc = "main"
    /\ \E io \in IoOutcomes :
          Step("main", generate_main_index(config, dirs, files, clock, io),
               "links")
    /\ root_docs' = ScanRootDocs(dirs, files)

\* whether generate_all calls check_links
CallsLinkCheck(ok, cfg) == ok /\ LinkCheckEnabled(cfg)

\* faulty variant: the link check's result folded into the returned value
ReturnValue_with_check(ok, check) == ok /\ check.result

\* the value generate_all returns
ReturnValue(ok, check) == ok

\* the end of generate_all: the link check, then "return success"; under
\* --action sync main() goes on to check_links when generate_all returned
\* True
FinishGenerateAll ==
    /\ pc = "links"
    /\ link_check' = IF CallsLinkCheck(success, config)
                     THEN check_links(config, dirs, files, "generate_all")
                     ELSE NoLinkCheck
    /\ LET value == ReturnValue(success, link_check')
       IN  IF action = "sync" /\ value
           THEN /\ pc' = "check"
                /\ exit' = [ state |-> "running", generate_all |-> "true",
                             code |-> 0 ]
           ELSE /\ pc' = "done"
                /\ exit' = [ state |-> "returned",
                             generate_all |-> IF value THEN "true" ELSE "false",
                             code |-> IF value THEN 0 ELSE 1 ]
    /\ UNCHANGED << config_file, config, dirs, files, clock, runs, action,
                    success, steps, chapters, root_docs, wrote >>

\* main() calls check_links (--action check, or the second half of sync)
CheckLinks ==
    /\ pc = "check"
    /\ link_check' = check_links(config, dirs, files, "main")
    /\ pc' = "done"
    /\ exit' = [ exit EXCEPT !.state = "returned",
                             !.code = IF link_check'.result THEN 0 ELSE 1 ]
    /\ UNCHANGED << config_file, config, dirs, files, clock, runs, action,
                    success, steps, chapters, root_docs, wrote >>

\* a second passes
Tick ==
    /\ clock < StartClock + MaxTicks
    /\ clock' = clock + 1
    /\ UNCHANGED << config_file, config, dirs, files, runs, action, pc,
                    success, steps, chapters, root_docs, wrote, link_check,
                    exit >>

Next ==
    \/ \E a \in { "generate", "check", "sync" } : Start(a)
    \/ GeneratePrdIndex
    \/ GenerateArchitectureIndex
    \/ GenerateMainIndex
    \/ FinishGenerateAll
    \/ CheckLinks
    \/ Tick

Spec == Init /\ [][Next]_vars

--------------------------------------------------------------------------
(* Properties *)

StepNames == [ i \in 1..Len(steps) |-> steps[i].step ]

LastStep == steps[Len(steps)]

\* C1: at the end of every generate_all with auto_index on, the three
\* module steps were attempted in the order prd, architecture, main,
\* whatever the earlier steps did, and generate_all returned the logical
\* AND of the three step results.
C1_AllStepsAttempted ==
    (pc = "done" /\ action \in { "generate", "sync" } /\ AutoIndex(config))
    => /\ StepNames = << "prd", "architecture", "main" >>
       /\ exit.generate_all =
            (IF \A i \in 1..Len(steps) : steps[i].result = "true"
             THEN "true" ELSE "false")

\* C2: for every configuration load_config can return, generate_prd_index
\* and generate_architecture_index end by returning true or false, never
\* by raising on an absent section or field.
C2_NoMissingKeyFailure ==
    \A i \in 1..Len(steps) :
        steps[i].step \in { "prd", "architecture" }
        => steps[i].result \in { "true", "false" }
           \/ steps[i].error \notin { "KeyError", "UndefinedError" }

\* C3: a module step whose write of index.md failed ended by returning
\* false, not by an exception leaving the step.
C3_WriteFailureReturnsFalse ==
    (steps # << >> /\ wrote.attempted /\ ~wrote.made)
    => LastStep.result = "false"

\* one module step was taken
ModuleStepTaken == Len(steps') = Len(steps) + 1

IndexKind(step) ==
    IF step = "prd" THEN "prd_index"
    ELSE IF step = "architecture" THEN "architecture_index" ELSE "main_index"

\* the directories an index may be written to
IndexDirs == { docs_dir, prd_dir, architecture_dir }

\* C4: when a module step writes index.md with backup enabled and index.md
\* exists with content C at clock second t, index.md is first renamed to
\* index.md.backup.<t> in the same directory, a name other than index.md,
\* and the new content is written afterwards: once index.md has changed or
\* gone, the backup holds C, and after a successful step index.md holds
\* the newly rendered content.  With backup disabled or no index.md no
\* backup file is created.
C4_BackupBeforeWrite ==
    [][ ModuleStepTaken =>
        \A d \in IndexDirs :
            LET index == Append(d, N_index_md)
                backup == Append(d, N_index_md \o N_dot_backup_dot
                                    \o IntToStr(clock))
            IN  (wrote'.attempted /\ wrote'.index_file = index) =>
                IF BackupEnabled(config) /\ IsFile(files, index)
                THEN /\ NameOf(backup) # NameOf(index)
                     /\ (~IsFile(files', index)
                         \/ FileAt(files', index).content
                            # FileAt(files, index).content
                         \/ steps'[Len(steps')].result = "true")
                        => /\ IsFile(files', backup)
                           /\ FileAt(files', backup).content
                              = FileAt(files, index).content
                     /\ steps'[Len(steps')].result = "true"
                        => /\ IsFile(files', index)
                           /\ FileAt(files', index).content.kind
                              = IndexKind(steps'[Len(steps')].step)
                           /\ FileAt(files', index).content.at = clock
                           /\ FileAt(files', index).content.chapters = chapters'
                ELSE { f.path : f \in files' } \ { f.path : f \in files }
                     \subseteq { index }
      ]_vars

\* a step backed up the index a user wrote and wrote the rendered index
C4_Witness ==
    /\ wrote.made
    /\ wrote.backup
    /\ wrote.backup_file = Append(prd_dir, N_index_md \o N_dot_backup_dot
                                           \o IntToStr(wrote.at))
    /\ \E f \in files : f.path = wrote.backup_file /\ f.content = C_old_index
    /\ \E f \in files :
          f.path = Append(prd_dir, N_index_md) /\ f.content.kind = "prd_index"

\* a file named index.md.backup.<something>
IsBackup(path) ==
    LET prefix == N_index_md \o N_dot_backup_dot
    IN  /\ Len(NameOf(path)) > Len(prefix)
        /\ SubSeq(NameOf(path), 1, Len(prefix)) = prefix

\* C5 (as stated): once a backup file exists with some content, it exists
\* with that same content in every later state.
C5_AppendOnly ==
    [][ \A f \in files :
            IsBackup(f.path)
            => \E g \in files' : g.path = f.path /\ g.content = f.content
      ]_vars

\* C5 (amended): a backup file is never deleted, and its content changes
\* only when a module step backs up the index.md of the same directory in
\* the clock second the backup's name carries; it then holds the content
\* index.md had before that step.
C5_ReplacedOnlyInSameSecond ==
    [][ \A f \in files :
            IsBackup(f.path)
            => \E g \in files' :
                  /\ g.path = f.path
                  /\ \/ g.content = f.content
                     \/ LET index == Append(Parent(f.path), N_index_md)
                        IN  /\ ModuleStepTaken
                            /\ wrote'.attempted
                            /\ wrote'.index_file = index
                            /\ NameOf(f.path) = N_index_md \o N_dot_backup_dot
                                                \o IntToStr(clock)
                            /\ IsFile(files, index)
                            /\ g.content = FileAt(files, index).content
      ]_vars

\* two backups of the same index stand side by side: the earlier one has
\* outlived a later backup
C5_Witness ==
    \E f \in files, g \in files :
        /\ IsBackup(f.path) /\ IsBackup(g.path)
        /\ Parent(f.path) = Parent(g.path)
        /\ f.path # g.path
        /\ f.content = C_old_index
        /\ g.content.kind = "prd_index"

\* the config file gives no modules section: it is absent, unparsable, or
\* parsed to a mapping without the key
NoModulesSection ==
    config_file.state # "parsed" \/ "modules" \notin DOMAIN config_file.data

\* C6 (as stated): for every configuration missing the modules section,
\* the Configuration load_config returns has a modules entry that is an
\* empty mapping.
C6_ModulesAlwaysPresent ==
    NoModulesSection
    => "modules" \in DOMAIN config /\ config["modules"] = EmptyDict

\* C6 (amended): with the config file absent or unparsable load_config
\* returns the default Configuration, whose modules entry is an empty
\* mapping; a config file that parses to a mapping without a modules key
\* is returned as parsed, with no modules entry, and it is the callers'
\* lookup config.get("modules", {}) that yields the empty mapping.
C6_ModulesDefaultedAtAccess ==
    /\ config_file.state \in { "absent", "unparsable" }
       => "modules" \in DOMAIN config /\ config["modules"] = EmptyDict
    /\ (config_file.state = "parsed" /\ "modules" \notin DOMAIN config_file.data)
       => /\ config = config_file.data
          /\ "modules" \notin DOMAIN config
          /\ Get(config, "modules", EmptyDict) = EmptyDict

\* a run has used a parsed configuration that has no modules key
C6_Witness ==
    /\ config_file.state = "parsed"
    /\ "modules" \notin DOMAIN config_file.data
    /\ "modules" \notin DOMAIN config
    /\ steps # << >>

\* the ModuleConfig a module step reads, and its directory
StepConfig(key) == Get(Get(config, "modules", EmptyDict), key, EmptyDict)

StepDir(key) == JoinPath(docs_dir, StepConfig(key)["path"])

\* the step of module key is taken and gets as far as resolving chapters
Resolving(key) ==
    /\ pc = (IF key = "prd" THEN "prd" ELSE "arch")
    /\ ModuleStepTaken
    /\ Get(StepConfig(key), "enabled", TRUE)
    /\ "path" \in DOMAIN StepConfig(key)
    /\ \/ StepDir(key) \in dirs
       \/ \E f \in files : f.path = StepDir(key)

\* C7: with a non-empty explicit chapter list, the resolved chapters are
\* exactly the configured ChapterRefs whose file exists in the module
\* directory, in the configured order, each carrying the fields of its
\* ChapterRef: none dropped but those whose file does not exist, none
\* reordered, none added.
C7_ExplicitOrderKept ==
    [][ \A key \in { "prd", "architecture" } :
            (Resolving(key) /\ Get(StepConfig(key), "chapters", << >>) # << >>)
            => LET present(r) ==
                       \/ \E f \in files : f.path = Append(StepDir(key), r["file"])
                       \/ Append(StepDir(key), r["file"]) \in dirs
                   refs == SelectSeq(StepConfig(key)["chapters"], present)
               IN  /\ Len(chapters') = Len(refs)
                   /\ \A i \in 1..Len(refs) :
                         \A k \in DOMAIN refs[i] : chapters'[i][k] = refs[i][k]
      ]_vars

\* of the list b.md, c.md, a.md the chapters b.md and a.md were resolved,
\* c.md not being there
C7_Witness ==
    /\ pc = "arch"
    /\ Len(Get(StepConfig("prd"), "chapters", << >>)) = 3
    /\ Len(chapters) = 2
    /\ chapters[1]["file"] = N_b_md
    /\ chapters[2]["file"] = N_a_md
    /\ ~IsFile(files, Append(prd_dir, N_c_md))

\* a name sorts before another: at the first place where they differ the
\* one has ended or has the smaller character
LexBefore(a, b) ==
    \E k \in 1..(Len(b)) :
        /\ k <= Len(a) + 1
        /\ \A j \in 1..(k - 1) : a[j] = b[j]
        /\ k = Len(a) + 1 \/ Ord(a[k]) < Ord(b[k])

\* C8: with no explicit chapter list, the resolved chapters are exactly
\* the *.md files directly in the module directory less index.md, each
\* once, in lexicographic order of their file names, whatever their titles.
C8_DiscoveryByFilename ==
    [][ \A key \in { "prd", "architecture" } :
            (Resolving(key) /\ Get(StepConfig(key), "chapters", << >>) = << >>)
            => LET here == { f \in files : Parent(f.path) = StepDir(key) }
                   md == { NameOf(f.path) : f \in
                             { g \in here :
                                 /\ Len(NameOf(g.path)) >= 3
                                 /\ SubSeq(NameOf(g.path),
                                           Len(NameOf(g.path)) - 2,
                                           Len(NameOf(g.path)))
                                    = << ".", "m", "d" >> } }
                   got == [ i \in 1..Len(chapters') |-> chapters'[i]["file"] ]
               IN  /\ { got[i] : i \in 1..Len(got) } = md \ { N_index_md }
                   /\ \A i \in 1..Len(got) : \A j \in 1..Len(got) :
                         i < j => LexBefore(got[i], got[j])
      ]_vars

\* a.md, headed Beta, is listed before b.md, headed Alpha; the index.md
\* and the notes.txt of the directory are not listed
C8_Witness ==
    /\ pc = "arch"
    /\ Get(StepConfig("prd"), "chapters", << >>) = << >>
    /\ Len(chapters) = 2
    /\ chapters[1]["file"] = N_a_md /\ chapters[1]["title"] = T_Beta
    /\ chapters[2]["file"] = N_b_md /\ chapters[2]["title"] = T_Alpha
    /\ IsFile(files, Append(prd_dir, N_index_md))

\* the markdown files under the documentation root
MdFiles ==
    { f \in files :
        /\ Len(f.path) >= 2
        /\ f.path[1] = N_docs
        /\ Len(NameOf(f.path)) >= 3
        /\ SubSeq(NameOf(f.path), Len(NameOf(f.path)) - 2, Len(NameOf(f.path)))
           = << ".", "m", "d" >> }

\* the i-th link of file f is relative and its target, resolved against the
\* directory of f, does not exist
BrokenAt(f, i) ==
    LET url == f.content.links[i].url
    IN  /\ Len(url) >= 2
        /\ url[1] \in { << "." >>, << ".", "." >> }
        /\ ~ExistsIn(dirs, files, Resolve(JoinPath(Parent(f.path), url)))

\* the occurrences of broken relative links in a set of files
BrokenOccurrences(S) ==
    UNION { { << f.path, i >> :
                i \in { j \in 1..Len(f.content.links) : BrokenAt(f, j) } } :
            f \in S }

\* C9 (as stated): check_links scans every markdown file under the
\* documentation root and returns false if and only if at least one of
\* them contains a relative link whose target does not exist, with exactly
\* one broken-link record per such link occurrence.
C9_FalseIffBrokenLink ==
    link_check.called
    => /\ link_check.scanned = { f.path : f \in MdFiles }
       /\ ~link_check.result <=> BrokenOccurrences(MdFiles) # {}
       /\ Len(link_check.broken_links) = Cardinality(BrokenOccurrences(MdFiles))

\* C9 (amended): with link checking enabled in the configuration,
\* check_links scans every markdown file under the documentation root and
\* returns false if and only if at least one file it can read contains a
\* relative link whose target does not exist; it records exactly one
\* broken-link record, of that file, link and text, per such occurrence.
\* With link checking disabled it returns true and records nothing.
C9_EnabledAndReadable ==
    link_check.called
    => IF Get(Get(config, "quality", EmptyDict), "check_links", TRUE)
       THEN LET readable == { f \in MdFiles : f.readable }
                broken == link_check.broken_links
            IN  /\ link_check.scanned = { f.path : f \in MdFiles }
                /\ ~link_check.result <=> BrokenOccurrences(readable) # {}
                /\ Len(broken) = Cardinality(BrokenOccurrences(readable))
                /\ \A o \in BrokenOccurrences(readable) :
                      \E k \in 1..Len(broken) :
                         /\ broken[k].file = o[1]
                         /\ broken[k].link
                            = FileAt(files, o[1]).content.links[o[2]].url
                         /\ broken[k].text
                            = FileAt(files, o[1]).content.links[o[2]].text
       ELSE link_check.result /\ link_check.broken_links = << >>

\* a check found the same broken link twice in one file and recorded it
\* twice; an absolute URL in that file was not recorded
C9_Witness ==
    /\ link_check.called
    /\ ~link_check.result
    /\ Len(link_check.broken_links) = 2
    /\ link_check.broken_links[1] = link_check.broken_links[2]
    /\ link_check.broken_links[1].link = << N_dot, N_c_md >>
    /\ \E f \in files :
          /\ f.path = link_check.broken_links[1].file
          /\ \E i \in 1..Len(f.content.links) : f.content.links[i] = L_url

TitleLine(lines) ==
    IF \E i \in 1..Len(lines) : lines[i].mark = "# "
    THEN CHOOSE i \in 1..Len(lines) :
            /\ lines[i].mark = "# "
            /\ \A j \in 1..(i - 1) : lines[j].mark # "# "
    ELSE 0

\* the lines that begin with "## " and come after the title line (with no
\* title line, all the lines that begin with "## ")
DescriptionLines(lines) ==
    { i \in 1..Len(lines) : lines[i].mark = "## " /\ i > TitleLine(lines) }

\* C11: a chapter parsed from a file that can be read has for title the
\* text of the first line beginning with "# ", or the file name without
\* extension when there is none, and for description the text of the first
\* line beginning with "## " that comes after the title line, or the
\* placeholder when there is none: a "## " line before the title line is
\* not the description.
C11_DescriptionAfterTitle ==
    [][ \A key \in { "prd", "architecture" } :
            (Resolving(key) /\ Get(StepConfig(key), "chapters", << >>) = << >>)
            => \A i \in 1..Len(chapters') :
                  LET file_path == Append(StepDir(key), chapters'[i]["file"])
                      lines == FileAt(files, file_path).content.lines
                      t == TitleLine(lines)
                      d == DescriptionLines(lines)
                  IN  CanRead(files, file_path)
                      => /\ chapters'[i]["title"]
                            = (IF t # 0 THEN lines[t].text
                               ELSE Stem(chapters'[i]["file"]))
                         /\ chapters'[i]["description"]
                            = (IF d # {}
                               THEN lines[CHOOSE m \in d : \A n \in d : m <= n].text
                               ELSE T_chapter_description)
      ]_vars

\* the last step resolved its chapters by discovery
DiscoveredLast ==
    /\ steps # << >>
    /\ LastStep.step \in { "prd", "architecture" }
    /\ Get(StepConfig(LastStep.step), "chapters", << >>) = << >>

\* C12: a backup file, named index.md.backup.<integer>, has a name that
\* does not end with .md, and so it is never among the chapters found by
\* discovery, never among the other documents of the root index, and
\* never among the files the link checker scans.
C12_BackupsStayOut ==
    /\ \A f \in files :
          IsBackup(f.path)
          => SubSeq(NameOf(f.path), Len(NameOf(f.path)) - 2, Len(NameOf(f.path)))
             # << ".", "m", "d" >>
    /\ DiscoveredLast
       => \A i \in 1..Len(chapters) : ~IsBackup(<< chapters[i]["file"] >>)
    /\ \A i \in 1..Len(root_docs) : ~IsBackup(root_docs[i]["path"])
    /\ \A p \in link_check.scanned : ~IsBackup(p)

\* the link checker has scanned a directory that holds a backup made by an
\* earlier run
C12_Witness ==
    /\ link_check.called
    /\ \E f \in files :
          /\ IsBackup(f.path)
          /\ \E p \in link_check.scanned : Parent(p) = Parent(f.path)

==========================================================================
